---- MODULE Spec2Model ----
(* Rules engine of the board game Tak (src/src/lib.rs): GameState with its    *)
(* Board of stacks, the current player and both players' reserves, driven by  *)
(* GameState::apply_turn.                                                     *)
EXTENDS Integers, Sequences, FiniteSets, TLC

(* ------------------------------------------------------------------------ *)
(* Bounds of the model                                                        *)
(* ------------------------------------------------------------------------ *)

\* the "any" caller submits every turn of Turns at every step, until MaxTurns
\* calls have succeeded
MaxTurns == 5
\* the "lanes" caller lets each player place and move stones down a column of
\* its own, until MaxLaneTurns calls have succeeded: long enough for a player
\* of the 3x3 game to use up the ordinary reserve and ask for one more stone
MaxLaneTurns == 41
\* turns are submitted for the squares number 0..MaxSquare of the top left
\* corner, (0,0), (0,1), (1,0), (1,1), (2,0), ..., and for two locations off
\* the board; moved stones may travel to any square
MaxSquare == 1
\* GameState::new is tried with every size in 0..MaxNewSize
MaxNewSize == 9
\* usize arithmetic wraps modulo 2^64 when overflow checks are off; the
\* checker's integers are 32 bits wide, so the modulus is represented by 2^30:
\* every wrapped coordinate is far above any board size either way
UsizeModulus == 1073741824
\* Reserve.reg and Reserve.cap are u8
U8Modulus == 256

(* ------------------------------------------------------------------------ *)
(* Data model                                                                 *)
(* ------------------------------------------------------------------------ *)

Player == {"White", "Black"}

\* fault: both arms of the match yield Black
next_both_black(p) == "Black"

next(p) == IF p = "White" THEN "Black" ELSE "White"

Dir == {"North", "East", "South", "West"}

StoneType == {"Flat", "Standing", "Capstone"}

Loc(r, c) == [row |-> r, col |-> c]

Stone(o, t) == [owner |-> o, typ |-> t]

\* wrapping subtraction on usize (what `a - b` computes without overflow checks)
wrapping_sub(a, b) == IF a >= b THEN a - b ELSE UsizeModulus - (b - a)

\* `a - b` on usize underflows: a panic with overflow checks, a wrap without
Underflows(loc, dir, count) ==
    \/ dir = "North" /\ loc.row < count
    \/ dir = "West" /\ loc.col < count

move_in_by(loc, dir, count) ==
    CASE dir = "North" -> Loc(wrapping_sub(loc.row, count), loc.col)
      [] dir = "East" -> Loc(loc.row, loc.col + count)
      [] dir = "South" -> Loc(loc.row + count, loc.col)
      [] dir = "West" -> Loc(loc.row, wrapping_sub(loc.col, count))

move_in(loc, dir) == move_in_by(loc, dir, 1)

\* the arms of `match size` in GameState::new that yield a Reserve; every
\* other size takes the `_ => panic!` arm
ReserveTable ==
    (3 :> [reg |-> 10, cap |-> 0]) @@ (4 :> [reg |-> 15, cap |-> 0])
        @@ (5 :> [reg |-> 21, cap |-> 1]) @@ (6 :> [reg |-> 30, cap |-> 1])
        @@ (7 :> [reg |-> 40, cap |-> 2]) @@ (8 :> [reg |-> 50, cap |-> 2])

\* fault: the largest boards get the capstone count of the row above
ReserveFor_one_capstone(n) ==
    IF n >= 7 THEN [ReserveTable[n] EXCEPT !.cap = 1] ELSE ReserveTable[n]

\* the Reserve GameState::new gives each player on a board of side n
ReserveFor(n) == ReserveTable[n]

\* the callers explored, and the board size each gives to GameState::new
Callers == {"any", "lanes"}

SizeFor(c) == IF c = "any" THEN 5 ELSE 3

(* ------------------------------------------------------------------------ *)
(* State                                                                      *)
(* ------------------------------------------------------------------------ *)

VARIABLES
    caller,          \* which turns the caller submits: "any" or "lanes"
    size,            \* Board::size(): the side length given to GameState::new
    board,           \* Board: the stack (bottom to top) of every square
    current_player,  \* GameState.current_player
    reserves,        \* GameState.reserves: Player -> Reserve
    pc,              \* the caller: "idle", "returned" (apply_turn has returned),
                     \* or "panicked" once a call has aborted the program
    turn,            \* the Turn value the caller holds ("none": none)
    ret,             \* what apply_turn did with it: "true", "false", "panic"
                     \* (valid_turn aborted), "apply_panic" (valid_turn said
                     \* true and the rest of the call aborted) ("none": no call)
    pre,             \* the GameState apply_turn was entered with ("none": no call)
    applied          \* number of apply_turn calls that returned true

vars == <<caller, size, board, current_player, reserves, pc, turn, ret,
          pre, applied>>

\* Board::new: Vec<Vec<Vec<Stone>>>, n rows of n empty stacks (row r of the
\* code is element r + 1 here: sequences count from 1)
BoardNew(n) == [r \in 1..n |-> [c \in 1..n |-> <<>>]]

\* Index<Loc> for Board: self.0[index.row][index.col]
At(b, loc) == b[loc.row + 1][loc.col + 1]

\* fault: row and column are swapped when a stack is written
Put_transposed(b, loc, stack) ==
    [b EXCEPT ![loc.col + 1][loc.row + 1] = stack]

\* IndexMut<Loc> for Board, followed by an assignment of the whole stack
Put(b, loc, stack) == [b EXCEPT ![loc.row + 1][loc.col + 1] = stack]

valid_loc(loc) == loc.row < size /\ loc.col < size

Last(s) == s[Len(s)]

(* ------------------------------------------------------------------------ *)
(* Board::valid_turn                                                          *)
(* ------------------------------------------------------------------------ *)

\* stacks.windows(2).all(|s| s[0] > 0 && s[0] > s[1])
WindowsOk(stacks) ==
    \A i \in 1..(Len(stacks) - 1) : stacks[i] > 0 /\ stacks[i] > stacks[i + 1]

\* fault: the check for a Capstone on the path is missing
PathBlocked_covers_capstone(b, loc, dir, stacks, top_here) ==
    \E i \in 1..Len(stacks) :
        LET next_loc == move_in_by(loc, dir, i)
        IN  /\ At(b, next_loc) # <<>>
            /\ LET top_there == Last(At(b, next_loc))
               IN  /\ top_there.typ = "Standing"
                   /\ ~(top_here.typ = "Capstone" /\ stacks[i] = 1)

\* the loop over the path: some square blocks the move
PathBlocked(b, loc, dir, stacks, top_here) ==
    \E i \in 1..Len(stacks) :
        LET next_loc == move_in_by(loc, dir, i)
        IN  /\ At(b, next_loc) # <<>>
            /\ LET top_there == Last(At(b, next_loc))
               IN  \/ /\ top_there.typ = "Standing"
                      /\ ~(top_here.typ = "Capstone" /\ stacks[i] = 1)
                   \/ top_there.typ = "Capstone"

\* fault: a Place is not checked for an empty target square
BoardValidTurn_place_on_stack(b, t, overflow_checks) ==
    IF t.kind = "Place"
    THEN IF valid_loc(t.loc) THEN "true" ELSE "false"
    ELSE
        IF ~(Len(t.stacks) > 0) THEN "false"
        ELSE IF ~(t.stacks[1] > 0 /\ t.stacks[1] <= size) THEN "false"
        ELSE IF ~valid_loc(t.loc) THEN "panic"
        ELSE IF ~(t.stacks[1] <= Len(At(b, t.loc))) THEN "false"
        ELSE IF ~WindowsOk(t.stacks) THEN "false"
        ELSE IF ~valid_loc(t.loc) THEN "false"
        ELSE IF Underflows(t.loc, t.dir, Len(t.stacks)) /\ overflow_checks THEN "panic"
        ELSE IF ~valid_loc(move_in_by(t.loc, t.dir, Len(t.stacks))) THEN "false"
        ELSE IF ~(Last(At(b, t.loc)).owner = t.player) THEN "false"
        ELSE IF PathBlocked(b, t.loc, t.dir, t.stacks, Last(At(b, t.loc))) THEN "false"
        ELSE "true"

\* fault: the pick-up is not compared with the carry limit
BoardValidTurn_no_carry_limit(b, t, overflow_checks) ==
    IF t.kind = "Place"
    THEN IF valid_loc(t.loc) /\ At(b, t.loc) = <<>> THEN "true" ELSE "false"
    ELSE
        IF ~(Len(t.stacks) > 0) THEN "false"
        ELSE IF ~(t.stacks[1] > 0) THEN "false"
        ELSE IF ~valid_loc(t.loc) THEN "panic"
        ELSE IF ~(t.stacks[1] <= Len(At(b, t.loc))) THEN "false"
        ELSE IF ~WindowsOk(t.stacks) THEN "false"
        ELSE IF ~valid_loc(t.loc) THEN "false"
        ELSE IF Underflows(t.loc, t.dir, Len(t.stacks)) /\ overflow_checks THEN "panic"
        ELSE IF ~valid_loc(move_in_by(t.loc, t.dir, Len(t.stacks))) THEN "false"
        ELSE IF ~(Last(At(b, t.loc)).owner = t.player) THEN "false"
        ELSE IF PathBlocked(b, t.loc, t.dir, t.stacks, Last(At(b, t.loc))) THEN "false"
        ELSE "true"

\* fault: the pick-up is not compared with the height of the source stack
\* (an empty source stack then aborts at last().unwrap())
BoardValidTurn_no_pickup_check(b, t, overflow_checks) ==
    IF t.kind = "Place"
    THEN IF valid_loc(t.loc) /\ At(b, t.loc) = <<>> THEN "true" ELSE "false"
    ELSE
        IF ~(Len(t.stacks) > 0) THEN "false"
        ELSE IF ~(t.stacks[1] > 0 /\ t.stacks[1] <= size) THEN "false"
        ELSE IF ~WindowsOk(t.stacks) THEN "false"
        ELSE IF ~valid_loc(t.loc) THEN "false"
        ELSE IF Underflows(t.loc, t.dir, Len(t.stacks)) /\ overflow_checks THEN "panic"
        ELSE IF ~valid_loc(move_in_by(t.loc, t.dir, Len(t.stacks))) THEN "false"
        ELSE IF At(b, t.loc) = <<>> THEN "panic"
        ELSE IF ~(Last(At(b, t.loc)).owner = t.player) THEN "false"
        ELSE IF PathBlocked(b, t.loc, t.dir, t.stacks, Last(At(b, t.loc))) THEN "false"
        ELSE "true"

\* result "true" / "false", or "panic" where the code aborts; overflow_checks
\* is the build: arithmetic overflow panics (TRUE) or wraps (FALSE)
BoardValidTurn(b, t, overflow_checks) ==
    IF t.kind = "Place"
    THEN IF valid_loc(t.loc) /\ At(b, t.loc) = <<>> THEN "true" ELSE "false"
    ELSE
        IF ~(Len(t.stacks) > 0) THEN "false"
        ELSE IF ~(t.stacks[1] > 0 /\ t.stacks[1] <= size) THEN "false"
        \* self[*loc] is indexed here, before the location is validated
        ELSE IF ~valid_loc(t.loc) THEN "panic"
        ELSE IF ~(t.stacks[1] <= Len(At(b, t.loc))) THEN "false"
        ELSE IF ~WindowsOk(t.stacks) THEN "false"
        ELSE IF ~valid_loc(t.loc) THEN "false"
        ELSE IF Underflows(t.loc, t.dir, Len(t.stacks)) /\ overflow_checks THEN "panic"
        ELSE IF ~valid_loc(move_in_by(t.loc, t.dir, Len(t.stacks))) THEN "false"
        ELSE IF ~(Last(At(b, t.loc)).owner = t.player) THEN "false"
        ELSE IF PathBlocked(b, t.loc, t.dir, t.stacks, Last(At(b, t.loc))) THEN "false"
        ELSE "true"

(* ------------------------------------------------------------------------ *)
(* Board::apply_turn                                                          *)
(* ------------------------------------------------------------------------ *)

\* fault: the top stone of the square is left as it is
FlattenTop_keeps_type(stack) == stack

\* fault: the top stone is replaced by a fresh Flat stone of the first player
FlattenTop_resets_owner(stack) ==
    IF stack = <<>> THEN stack
    ELSE [stack EXCEPT ![Len(stack)] = Stone("White", "Flat")]

\* if let Some(stack_top) = self[next_loc].last_mut() { stack_top.typ = Flat }
FlattenTop(stack) ==
    IF stack = <<>> THEN stack
    ELSE [stack EXCEPT ![Len(stack)] = Stone(stack[Len(stack)].owner, "Flat")]

\* fault: the split index is one too high, a stone stays behind and is carried
SplitKeep_one_more(v, at) == SubSeq(v, 1, at + 1)

\* Vec::split_off(at): the part that stays, and the part that is returned
SplitKeep(v, at) == SubSeq(v, 1, at)
SplitOff(v, at) == SubSeq(v, at + 1, Len(v))

\* one step of the path aborts, in either build: move_in underflows (a panic
\* with overflow checks, a wrapped location without), self[next_loc] is indexed
\* off the board, or held_stack.len() - stack underflows (a panic with overflow
\* checks, a split_off beyond the length without). The board has not been
\* written in this step when any of them happens. held_len is
\* held_stack.len(), `rest` what is left of stacks[1..].
MoveStepPanics(held_len, next_loc, dir, rest) ==
    \/ Underflows(next_loc, dir, 1)
    \/ ~valid_loc(move_in(next_loc, dir))
    \/ rest # <<>> /\ rest[1] > held_len

\* some step of the loop over stacks[1..], or the final drop, aborts
RECURSIVE MoveLoopPanics(_, _, _, _)
MoveLoopPanics(held_len, next_loc, dir, rest) ==
    \/ MoveStepPanics(held_len, next_loc, dir, rest)
    \/ rest # <<>> /\ MoveLoopPanics(rest[1], move_in(next_loc, dir), dir, Tail(rest))

\* Board::apply_turn aborts: self[*loc] is off the board, stacks[0] does not
\* exist, stack_here.len() - stacks[0] underflows, or a step of the path aborts
BoardApplyPanics(b, t) ==
    IF t.kind = "Place"
    THEN ~valid_loc(t.loc)
    ELSE \/ ~valid_loc(t.loc)
         \/ t.stacks = <<>>
         \/ t.stacks[1] > Len(At(b, t.loc))
         \/ MoveLoopPanics(t.stacks[1], t.loc, t.dir, Tail(t.stacks))

\* fault: split_off is taken from the wrong end, the top of the pile drops first
RECURSIVE MoveLoop_top_first(_, _, _, _, _)
MoveLoop_top_first(b, held_stack, next_loc, dir, rest) ==
    LET nl == move_in(next_loc, dir)
    IN  IF MoveStepPanics(Len(held_stack), next_loc, dir, rest) THEN b
        ELSE IF rest = <<>>
        THEN Put(b, nl, FlattenTop(At(b, nl)) \o held_stack)
        ELSE LET at == rest[1]
                 dropped == SubSeq(held_stack, at + 1, Len(held_stack))
                 new_held_stack == SubSeq(held_stack, 1, at)
             IN  MoveLoop_top_first(Put(b, nl, FlattenTop(At(b, nl)) \o dropped),
                                    new_held_stack, nl, dir, Tail(rest))

\* the loop over stacks[1..] and the final drop: `rest` is what is left of
\* stacks[1..], held_stack the stones in hand on leaving next_loc; the board
\* as it is left behind when a step aborts
RECURSIVE MoveLoop(_, _, _, _, _)
MoveLoop(b, held_stack, next_loc, dir, rest) ==
    LET nl == move_in(next_loc, dir)
    IN  IF MoveStepPanics(Len(held_stack), next_loc, dir, rest) THEN b
        ELSE IF rest = <<>>
        THEN Put(b, nl, FlattenTop(At(b, nl)) \o held_stack)
        ELSE LET at == Len(held_stack) - rest[1]
                 new_held_stack == SplitOff(held_stack, at)
                 dropped == SplitKeep(held_stack, at)
             IN  MoveLoop(Put(b, nl, FlattenTop(At(b, nl)) \o dropped),
                          new_held_stack, nl, dir, Tail(rest))

\* the board Board::apply_turn leaves: the turn carried out, or what was
\* written before the abort
BoardApplyTurn(b, t) ==
    IF ~valid_loc(t.loc) THEN b
    ELSE IF t.kind = "Place"
    THEN Put(b, t.loc, Append(At(b, t.loc), Stone(t.player, t.typ)))
    ELSE IF t.stacks = <<>> \/ t.stacks[1] > Len(At(b, t.loc)) THEN b
    ELSE LET at == Len(At(b, t.loc)) - t.stacks[1]
             held_stack == SplitOff(At(b, t.loc), at)
         IN  MoveLoop(Put(b, t.loc, SplitKeep(At(b, t.loc), at)),
                      held_stack, t.loc, t.dir, Tail(t.stacks))

(* ------------------------------------------------------------------------ *)
(* GameState                                                                  *)
(* ------------------------------------------------------------------------ *)

\* fault: the turn's player is not compared with the current player
GameValidTurn_any_player(gs, t, overflow_checks) ==
    IF t.kind = "Place" /\ t.typ \in {"Flat", "Standing"}
       /\ gs.reserves[t.player].reg = 0 THEN "false"
    ELSE IF t.kind = "Place" /\ t.typ = "Capstone"
            /\ gs.reserves[t.player].cap = 0 THEN "false"
    ELSE BoardValidTurn(gs.board, t, overflow_checks)

\* fault: the ordinary pool is not checked
GameValidTurn_no_reg_check(gs, t, overflow_checks) ==
    IF ~(t.player = gs.current_player) THEN "false"
    ELSE IF t.kind = "Place" /\ t.typ = "Capstone"
            /\ gs.reserves[t.player].cap = 0 THEN "false"
    ELSE BoardValidTurn(gs.board, t, overflow_checks)

\* fault: the capstone pool is not checked
GameValidTurn_no_cap_check(gs, t, overflow_checks) ==
    IF ~(t.player = gs.current_player) THEN "false"
    ELSE IF t.kind = "Place" /\ t.typ \in {"Flat", "Standing"}
            /\ gs.reserves[t.player].reg = 0 THEN "false"
    ELSE BoardValidTurn(gs.board, t, overflow_checks)

\* GameState::valid_turn, for a GameState gs = (current_player, board, reserves)
GameValidTurn(gs, t, overflow_checks) ==
    IF ~(t.player = gs.current_player) THEN "false"
    ELSE IF t.kind = "Place" /\ t.typ \in {"Flat", "Standing"}
            /\ gs.reserves[t.player].reg = 0 THEN "false"
    ELSE IF t.kind = "Place" /\ t.typ = "Capstone"
            /\ gs.reserves[t.player].cap = 0 THEN "false"
    ELSE BoardValidTurn(gs.board, t, overflow_checks)

\* res.reg -= 1 / res.cap -= 1 underflows on u8: a panic with overflow checks
ReservePanics(res, typ, overflow_checks) ==
    /\ overflow_checks
    /\ (IF typ \in {"Flat", "Standing"} THEN res.reg ELSE res.cap) = 0

\* res.reg -= 1 / res.cap -= 1 on u8
ReserveAfter(res, typ) ==
    IF typ \in {"Flat", "Standing"}
    THEN [res EXCEPT !.reg = (res.reg - 1) % U8Modulus]
    ELSE [res EXCEPT !.cap = (res.cap - 1) % U8Modulus]

\* the turns submitted to apply_turn
InLocs ==
    {Loc(k \div 2, k % 2) : k \in 0..MaxSquare}
        \cup {Loc(size, 0), Loc(0, size)}

\* the `stacks` vectors of the submitted Moves: empty, a zero pick-up, one and
\* two path steps, a trailing zero, a sequence that does not decrease, a pick-up
\* above the carry limit
InStacks == {<<>>, <<0>>, <<1>>, <<2>>, <<1, 0>>, <<1, 1>>, <<2, 1>>, <<size + 1>>}

PlaceTurns ==
    {[kind |-> "Place", loc |-> l, player |-> p, typ |-> ty] :
        l \in InLocs, p \in Player, ty \in StoneType}

MoveTurns ==
    {[kind |-> "Move", loc |-> l, player |-> p, dir |-> d, stacks |-> s] :
        l \in InLocs, p \in Player, d \in Dir, s \in InStacks}

\* the "lanes" caller: White works column 0 and Black column 1, each placing
\* on row 0 and moving the stone one step South, onto a stack that grows on
\* row 1; each also tries to lift one stone more than the carry limit off it
Lanes == {[loc |-> Loc(0, 0), player |-> "White"], [loc |-> Loc(0, 1), player |-> "Black"]}

LaneTurns ==
    {[kind |-> "Place", loc |-> l.loc, player |-> l.player, typ |-> ty] :
        l \in Lanes, ty \in StoneType}
    \cup {[kind |-> "Move", loc |-> l.loc, player |-> l.player, dir |-> "South",
           stacks |-> <<1>>] : l \in Lanes}
    \cup {[kind |-> "Move", loc |-> move_in(l.loc, "South"), player |-> l.player,
           dir |-> "South", stacks |-> <<size + 1>>] : l \in Lanes}

Turns == IF caller = "any" THEN PlaceTurns \cup MoveTurns ELSE LaneTurns

TurnLimit == IF caller = "any" THEN MaxTurns ELSE MaxLaneTurns

\* the GameState as it is now
Self == [current_player |-> current_player, board |-> board, reserves |-> reserves]

\* GameState::new(size); the caller holds no turn
Init ==
    /\ caller \in Callers
    /\ size = SizeFor(caller)
    /\ board = BoardNew(size)
    /\ current_player = "White"
    /\ reserves = [p \in Player |-> ReserveFor(size)]
    /\ pc = "idle"
    /\ turn = "none"
    /\ ret = "none"
    /\ pre = "none"
    /\ applied = 0

\* fault: the current player is advanced before the turn is validated
apply_turn_flips_first(t) ==
    /\ turn' = t
    /\ pre' = Self
    /\ \E overflow_checks \in BOOLEAN :
           LET valid == GameValidTurn(Self, t, overflow_checks)
           IN  /\ current_player' = next(current_player)
               /\ IF valid # "true"
                  THEN /\ ret' = valid
                       /\ UNCHANGED <<board, reserves, applied>>
                  ELSE IF BoardApplyPanics(board, t)
                  THEN /\ ret' = "apply_panic"
                       /\ board' = BoardApplyTurn(board, t)
                       /\ UNCHANGED <<reserves, applied>>
                  ELSE IF t.kind = "Place"
                          /\ ReservePanics(reserves[t.player], t.typ, overflow_checks)
                  THEN /\ ret' = "apply_panic"
                       /\ board' = BoardApplyTurn(board, t)
                       /\ UNCHANGED <<reserves, applied>>
                  ELSE /\ ret' = "true"
                       /\ board' = BoardApplyTurn(board, t)
                       /\ reserves' = IF t.kind = "Place"
                                      THEN [reserves EXCEPT ![t.player] =
                                              ReserveAfter(reserves[t.player], t.typ)]
                                      ELSE reserves
                       /\ applied' = applied + 1
    /\ pc' = IF ret' \in {"panic", "apply_panic"} THEN "panicked" ELSE "returned"
    /\ UNCHANGED <<caller, size>>

\* GameState::apply_turn(&t), in a build with or without overflow checks:
\* valid_turn rejects or aborts and nothing is written; or Board::apply_turn
\* aborts, leaving what it had written; or the board is written, the player
\* advanced and the reserve decrement of a Place aborts; or the call returns true
apply_turn(t) ==
    /\ turn' = t
    /\ pre' = Self
    /\ \E overflow_checks \in BOOLEAN :
           LET valid == GameValidTurn(Self, t, overflow_checks)
           IN  IF valid # "true"
               THEN /\ ret' = valid
                    /\ UNCHANGED <<board, current_player, reserves, applied>>
               ELSE IF BoardApplyPanics(board, t)
               THEN /\ ret' = "apply_panic"
                    /\ board' = BoardApplyTurn(board, t)
                    /\ UNCHANGED <<current_player, reserves, applied>>
               ELSE IF t.kind = "Place"
                       /\ ReservePanics(reserves[t.player], t.typ, overflow_checks)
               THEN /\ ret' = "apply_panic"
                    /\ board' = BoardApplyTurn(board, t)
                    /\ current_player' = next(current_player)
                    /\ UNCHANGED <<reserves, applied>>
               ELSE /\ ret' = "true"
                    /\ board' = BoardApplyTurn(board, t)
                    /\ current_player' = next(current_player)
                    /\ reserves' = IF t.kind = "Place"
                                   THEN [reserves EXCEPT ![t.player] =
                                           ReserveAfter(reserves[t.player], t.typ)]
                                   ELSE reserves
                    /\ applied' = applied + 1
    /\ pc' = IF ret' \in {"panic", "apply_panic"} THEN "panicked" ELSE "returned"
    /\ UNCHANGED <<caller, size>>

\* the caller has seen the result and drops the Turn value
DropTurn ==
    /\ pc = "returned"
    /\ pc' = "idle"
    /\ turn' = "none"
    /\ ret' = "none"
    /\ pre' = "none"
    /\ UNCHANGED <<caller, size, board, current_player, reserves,
                   applied>>

\* the caller builds a Turn and submits it
Submit ==
    /\ pc = "idle"
    /\ applied < TurnLimit
    /\ \E t \in Turns : apply_turn(t)

Next ==
    \/ Submit
    \/ DropTurn

Spec == Init /\ [][Next]_vars

\* before GameState::new(size) is called: the caller has chosen the size and
\* there is no game state yet
InitNew ==
    /\ caller = "lanes"
    /\ size \in 0..MaxNewSize
    /\ board = <<>>
    /\ current_player = "none"
    /\ reserves = <<>>
    /\ pc = "start"
    /\ turn = "none"
    /\ ret = "none"
    /\ pre = "none"
    /\ applied = 0

\* GameState::new(size): the game state, or a panic that leaves none
GameStateNew ==
    /\ pc = "start"
    /\ IF size \in DOMAIN ReserveTable
       THEN /\ current_player' = "White"
            /\ board' = BoardNew(size)
            /\ reserves' = [p \in Player |-> ReserveFor(size)]
            /\ pc' = "idle"
       ELSE /\ pc' = "panicked"
            /\ UNCHANGED <<current_player, board, reserves>>
    /\ UNCHANGED <<caller, size, turn, ret, pre, applied>>

NextNew ==
    \/ GameStateNew
    \/ Submit
    \/ DropTurn

\* a game from its construction on, for every size a caller may ask for
SpecNew == InitNew /\ [][NextNew]_vars

(* ------------------------------------------------------------------------ *)
(* Vocabulary of the properties                                               *)
(* ------------------------------------------------------------------------ *)

\* apply_turn has just been called: turn, ret and pre describe that call
Called == pc \in {"returned", "panicked"}

\* rows and columns of the board, counted from 0
Coords == 0..(size - 1)

\* loc, in signed coordinates, is a square of the board
OnBoard(loc) == loc.row \in Coords /\ loc.col \in Coords

\* f[1] + ... + f[n]
RECURSIVE SumTo(_, _)
SumTo(f, n) == IF n = 0 THEN 0 ELSE f[n] + SumTo(f, n - 1)

\* how many stones of a stack belong to player p
OwnedIn(stack, p) ==
    IF stack = <<>> THEN 0 ELSE Len(SelectSeq(stack, LAMBDA st : st.owner = p))

\* how many stones of the first n squares of a row belong to player p
RECURSIVE OwnedInRow(_, _, _)
OwnedInRow(row, n, p) ==
    IF n = 0 THEN 0 ELSE OwnedIn(row[n], p) + OwnedInRow(row, n - 1, p)

\* how many stones of the first n rows of board b belong to player p
RECURSIVE OwnedInRows(_, _, _)
OwnedInRows(b, n, p) ==
    IF n = 0 THEN 0
    ELSE (IF \A c \in 1..size : b[n][c] = <<>> THEN 0 ELSE OwnedInRow(b[n], size, p))
             + OwnedInRows(b, n - 1, p)

\* how many stones of board b belong to player p
StonesOwned(b, p) == OwnedInRows(b, size, p)

\* the square k steps from loc in direction dir, in signed arithmetic
Shift(loc, dir, k) ==
    CASE dir = "North" -> Loc(loc.row - k, loc.col)
      [] dir = "East" -> Loc(loc.row, loc.col + k)
      [] dir = "South" -> Loc(loc.row + k, loc.col)
      [] dir = "West" -> Loc(loc.row, loc.col - k)

\* what valid_turn can answer to turn t in GameState gs, over both builds
ValidTurnResults(gs, t) == {GameValidTurn(gs, t, checks) : checks \in BOOLEAN}

\* the state is exactly the one apply_turn was entered with
Untouched ==
    /\ board = pre.board
    /\ reserves = pre.reserves
    /\ current_player = pre.current_player

(* ------------------------------------------------------------------------ *)
(* C1: after k successful apply_turn calls, and any number of rejected ones,  *)
(* the current player is White when k is even and Black when k is odd.        *)
(* ------------------------------------------------------------------------ *)
C1_Alternation ==
    current_player = (IF applied % 2 = 0 THEN "White" ELSE "Black")

\* a rejected call after three successful ones
C1_Witness ==
    /\ pc = "returned" /\ ret = "false"
    /\ applied = 3
    /\ current_player = "Black"

(* ------------------------------------------------------------------------ *)
(* C2: a turn that GameState::valid_turn finds invalid makes apply_turn       *)
(* return false, as an ordinary return, with the board, both reserves and the *)
(* current player exactly as they were.                                       *)
(* ------------------------------------------------------------------------ *)
C2_RejectionLeavesState ==
    Called =>
        /\ ValidTurnResults(pre, turn) = {"false"} => ret = "false"
        /\ ret = "false" => (pc = "returned" /\ Untouched)

\* the current player's Place on an occupied square has been rejected
C2_Witness ==
    /\ pc = "returned" /\ ret = "false"
    /\ applied >= 2
    /\ turn.kind = "Place" /\ turn.player = pre.current_player
    /\ OnBoard(turn.loc) /\ At(pre.board, turn.loc) # <<>>

(* ------------------------------------------------------------------------ *)
(* C3: conservation. For each player, the stones owned on the board plus the  *)
(* ordinary reserve plus the capstone reserve equal the initial allotment.    *)
(* ------------------------------------------------------------------------ *)
C3_Conservation ==
    \A p \in Player :
        StonesOwned(board, p) + reserves[p].reg + reserves[p].cap
            = ReserveFor(size).reg + ReserveFor(size).cap

\* a Move has just been applied to a board holding stones of both players
C3_Witness ==
    /\ pc = "returned" /\ ret = "true" /\ turn.kind = "Move"
    /\ applied >= 4
    /\ \A p \in Player : StonesOwned(board, p) >= 1
    /\ \E r \in Coords, c \in Coords : Len(At(board, Loc(r, c))) >= 2

(* ------------------------------------------------------------------------ *)
(* C4: a turn whose declared player is not the current player is rejected     *)
(* (false, state untouched) whatever its other fields are.                    *)
(* ------------------------------------------------------------------------ *)
C4_TurnOrder ==
    (Called /\ turn.player # pre.current_player) =>
        /\ ValidTurnResults(pre, turn) = {"false"}
        /\ ret = "false"
        /\ pc = "returned"
        /\ Untouched

\* rejected although it is a Place on an empty square with stones in reserve
C4_Witness ==
    /\ pc = "returned" /\ ret = "false"
    /\ turn.player # pre.current_player
    /\ turn.kind = "Place" /\ turn.typ = "Flat"
    /\ OnBoard(turn.loc) /\ At(pre.board, turn.loc) = <<>>
    /\ pre.reserves[turn.player].reg > 0

(* ------------------------------------------------------------------------ *)
(* C5: a Place is accepted exactly when its player is the current player,     *)
(* that player's pool for the placed type (ordinary for Flat and Standing,    *)
(* capstone for Capstone) is not empty, the target is on the board and the    *)
(* target square is empty; otherwise it is rejected with false.               *)
(* ------------------------------------------------------------------------ *)
PoolOf(typ) == IF typ = "Capstone" THEN "cap" ELSE "reg"

PlaceLegal(gs, t) ==
    /\ t.player = gs.current_player
    /\ gs.reserves[t.player][PoolOf(t.typ)] # 0
    /\ OnBoard(t.loc)
    /\ At(gs.board, t.loc) = <<>>

C5_PlaceLegality ==
    (Called /\ turn.kind = "Place") =>
        /\ ValidTurnResults(pre, turn) = {IF PlaceLegal(pre, turn) THEN "true" ELSE "false"}
        /\ ret \in ValidTurnResults(pre, turn)

\* Place-Capstone on an empty square rejected for the empty capstone pool alone,
\* while the ordinary pool, which a Place-Flat would use, still holds stones
C5_Witness ==
    /\ pc = "returned" /\ ret = "false"
    /\ turn.kind = "Place" /\ turn.typ = "Capstone"
    /\ turn.player = pre.current_player
    /\ OnBoard(turn.loc) /\ At(pre.board, turn.loc) = <<>>
    /\ pre.reserves[turn.player].cap = 0
    /\ pre.reserves[turn.player].reg > 0

(* ------------------------------------------------------------------------ *)
(* C6: a successful Place takes exactly 1 from the acting player's pool of    *)
(* the placed type and changes no other counter; every other call changes no  *)
(* counter; no counter ever rises above its initial value or wraps below 0.   *)
(* ------------------------------------------------------------------------ *)
Taken(p, pool) ==
    IF /\ ret = "true" /\ turn.kind = "Place"
       /\ turn.player = p /\ PoolOf(turn.typ) = pool
    THEN 1 ELSE 0

C6_ReserveAccounting ==
    /\ \A p \in Player : \A pool \in {"reg", "cap"} :
           reserves[p][pool] \in 0..ReserveFor(size)[pool]
    /\ Called =>
           \A p \in Player : \A pool \in {"reg", "cap"} :
               reserves[p][pool] = pre.reserves[p][pool] - Taken(p, pool)

\* a Place has just taken the last stone of an ordinary pool
C6_Witness ==
    /\ pc = "returned" /\ ret = "true"
    /\ turn.kind = "Place" /\ PoolOf(turn.typ) = "reg"
    /\ pre.reserves[turn.player].reg = 1
    /\ reserves[turn.player].reg = 0
    /\ reserves[turn.player].cap = pre.reserves[turn.player].cap

(* ------------------------------------------------------------------------ *)
(* Moves: the path of a Move is the squares 1..n steps from its source, n the *)
(* length of `stacks`; stacks[i] stones are in hand on arriving at square i.  *)
(* ------------------------------------------------------------------------ *)
PathSquare(t, i) == Shift(t.loc, t.dir, i)

\* path square i is on the board and topped, before the call, by a typ stone
ToppedBy(t, i, typ) ==
    /\ OnBoard(PathSquare(t, i))
    /\ At(pre.board, PathSquare(t, i)) # <<>>
    /\ Last(At(pre.board, PathSquare(t, i))).typ = typ

\* the number of stones the Move leaves on path square i
Deposit(t, i) == t.stacks[i] - (IF i < Len(t.stacks) THEN t.stacks[i + 1] ELSE 0)

\* the source stack of the Move has a Capstone on top
CapstoneOnSource(t) ==
    /\ OnBoard(t.loc)
    /\ At(pre.board, t.loc) # <<>>
    /\ Last(At(pre.board, t.loc)).typ = "Capstone"

\* the turn was rejected: an ordinary false result, nothing changed
Rejected ==
    /\ ret = "false"
    /\ pc = "returned"
    /\ Untouched

(* ------------------------------------------------------------------------ *)
(* C7: wall rule. An accepted Move with a Standing-topped square on its path  *)
(* has a Capstone on top of its source stack and leaves exactly 1 stone on    *)
(* that square; every other Move crossing such a square is rejected.          *)
(* ------------------------------------------------------------------------ *)
C7_WallRule ==
    (Called /\ turn.kind = "Move") =>
        \A i \in 1..Len(turn.stacks) :
            ToppedBy(turn, i, "Standing") =>
                IF CapstoneOnSource(turn) /\ Deposit(turn, i) = 1
                THEN ret = "true" =>
                        Len(At(board, PathSquare(turn, i)))
                            = Len(At(pre.board, PathSquare(turn, i))) + 1
                ELSE Rejected

(* ------------------------------------------------------------------------ *)
(* C8: a Move with a Capstone-topped square on its path is rejected, and no   *)
(* stack ever has a stone above a Capstone.                                   *)
(* ------------------------------------------------------------------------ *)
CapstonesOnTop(b) ==
    \A r \in 1..size : \A c \in 1..size :
        \A i \in 1..(Len(b[r][c]) - 1) : b[r][c][i].typ # "Capstone"

C8_CapstoneNeverCovered ==
    /\ CapstonesOnTop(board)
    /\ (Called /\ turn.kind = "Move") =>
           ((\E i \in 1..Len(turn.stacks) : ToppedBy(turn, i, "Capstone")) => Rejected)

(* ------------------------------------------------------------------------ *)
(* C9: a successful Move takes exactly stacks[1] stones off the top of the    *)
(* source, leaving the stones below as they were; the path squares receive    *)
(* all of them and nothing else, each deposit on top of what the square held, *)
(* bottom of the carried pile first and in the carried order, so that the     *)
(* source's top stone ends on top of the last square that receives stones.    *)
(* ------------------------------------------------------------------------ *)
\* the stones picked up, bottom to top
Carried(t) ==
    LET src == At(pre.board, t.loc)
    IN  SubSeq(src, Len(src) - t.stacks[1] + 1, Len(src))

\* the stones in hand dropped before path square i is reached
DroppedBefore(t, i) == t.stacks[1] - t.stacks[i]

\* the last path square that receives a stone
LastFed(t) ==
    CHOOSE i \in 1..Len(t.stacks) :
        /\ Deposit(t, i) > 0
        /\ \A j \in (i + 1)..Len(t.stacks) : Deposit(t, j) = 0

C9_MoveDistribution ==
    (Called /\ ret = "true" /\ turn.kind = "Move") =>
        LET src == At(pre.board, turn.loc)
            n == Len(turn.stacks)
            Old(i) == At(pre.board, PathSquare(turn, i))
            New(i) == At(board, PathSquare(turn, i))
        IN  /\ turn.stacks[1] <= Len(src)
            /\ At(board, turn.loc) = SubSeq(src, 1, Len(src) - turn.stacks[1])
            /\ \A i \in 1..n :
                   /\ Len(New(i)) = Len(Old(i)) + Deposit(turn, i)
                   /\ \A j \in 1..Len(Old(i)) : New(i)[j].owner = Old(i)[j].owner
                   /\ SubSeq(New(i), Len(Old(i)) + 1, Len(New(i)))
                         = SubSeq(Carried(turn), DroppedBefore(turn, i) + 1,
                                  DroppedBefore(turn, i) + Deposit(turn, i))
            /\ SumTo([i \in 1..n |-> Len(New(i)) - Len(Old(i))], n) = turn.stacks[1]
            /\ Last(New(LastFed(turn))) = Last(src)

\* two stones of different owners carried and dropped on two squares
C9_Witness ==
    /\ pc = "returned" /\ ret = "true"
    /\ turn.kind = "Move" /\ turn.stacks = <<2, 1>>
    /\ Carried(turn)[1].owner # Carried(turn)[2].owner
    /\ Len(At(board, PathSquare(turn, 1))) = 1
    /\ Len(At(board, PathSquare(turn, 2))) = 1

(* ------------------------------------------------------------------------ *)
(* C10: a Move whose source location is off the board is rejected: the call   *)
(* returns false and changes nothing, and does not abort.                     *)
(* ------------------------------------------------------------------------ *)
C10_OffBoardSourceRejected ==
    (Called /\ turn.kind = "Move" /\ ~OnBoard(turn.loc)) =>
        /\ ret = "false"
        /\ pc = "returned"
        /\ Untouched

(* ------------------------------------------------------------------------ *)
(* C11: a Move from a square of the board whose final destination (the source *)
(* shifted by the number of path steps) is off the board is rejected with a   *)
(* false result, past the high edge (South, East) and past the low edge       *)
(* (North, West) alike: the call returns false, changes nothing and does not  *)
(* abort.                                                                     *)
(* ------------------------------------------------------------------------ *)
\* the final destination of Move t lies off the board
LeavesBoard(t) ==
    /\ Len(t.stacks) > 0
    /\ ~OnBoard(PathSquare(t, Len(t.stacks)))

C11_OffBoardDestinationRejected ==
    (Called /\ turn.kind = "Move" /\ OnBoard(turn.loc) /\ LeavesBoard(turn)) =>
        /\ ret = "false"
        /\ pc = "returned"
        /\ Untouched

(* ------------------------------------------------------------------------ *)
(* C12: carry limit. Every accepted Move picks up at least 1 stone, at most   *)
(* board-size stones and at most the stones on its source square; a Move from *)
(* an empty square of the board is always rejected.                           *)
(* ------------------------------------------------------------------------ *)
C12_CarryLimit ==
    (Called /\ turn.kind = "Move") =>
        /\ ret = "true" =>
               /\ Len(turn.stacks) > 0
               /\ OnBoard(turn.loc)
               /\ turn.stacks[1] >= 1
               /\ turn.stacks[1] <= size
               /\ turn.stacks[1] <= Len(At(pre.board, turn.loc))
        /\ (OnBoard(turn.loc) /\ At(pre.board, turn.loc) = <<>>) =>
               (ret = "false" /\ pc = "returned" /\ Untouched)

\* the current player's own stack holds more than the carry limit, and lifting
\* size + 1 stones off it onto a square of the board has been rejected
C12_Witness ==
    /\ pc = "returned" /\ ret = "false"
    /\ turn.kind = "Move" /\ turn.stacks = <<size + 1>>
    /\ turn.player = pre.current_player
    /\ OnBoard(turn.loc) /\ OnBoard(PathSquare(turn, 1))
    /\ Len(At(pre.board, turn.loc)) >= size + 1
    /\ Last(At(pre.board, turn.loc)).owner = turn.player
    /\ Last(At(pre.board, turn.loc)).typ = "Flat"
    /\ At(pre.board, PathSquare(turn, 1)) = <<>>

(* ------------------------------------------------------------------------ *)
(* C13: stack control. Every accepted Move has the top stone of its source    *)
(* stack owned by the acting player, who is the current player; a Move from a *)
(* stack topped by a stone of the opponent is rejected, also when stones of   *)
(* the acting player lie lower in the stack.                                  *)
(* ------------------------------------------------------------------------ *)
C13_StackControl ==
    (Called /\ turn.kind = "Move") =>
        /\ ret = "true" =>
               /\ turn.player = pre.current_player
               /\ OnBoard(turn.loc) /\ At(pre.board, turn.loc) # <<>>
               /\ Last(At(pre.board, turn.loc)).owner = turn.player
        /\ (/\ OnBoard(turn.loc) /\ At(pre.board, turn.loc) # <<>>
            /\ Last(At(pre.board, turn.loc)).owner # turn.player) => Rejected

(* ------------------------------------------------------------------------ *)
(* C14: a Move that arrives with a Capstone alone (one stone in hand) on a    *)
(* square topped by a Standing stone, every other legality condition met, is  *)
(* accepted; afterwards the former Standing stone is Flat with its owner      *)
(* unchanged and the Capstone, still a Capstone, lies directly on top of it.  *)
(* ------------------------------------------------------------------------ *)
\* stacks strictly decreases and every entry is above 0
StrictlyDecreasing(stacks) ==
    /\ \A j \in 1..Len(stacks) : stacks[j] > 0
    /\ \A j \in 1..(Len(stacks) - 1) : stacks[j] > stacks[j + 1]

\* Move t meets every legality condition, the contents of path square i aside
LegalApartFrom(t, i) ==
    /\ t.player = pre.current_player
    /\ OnBoard(t.loc)
    /\ Len(t.stacks) > 0 /\ OnBoard(PathSquare(t, Len(t.stacks)))
    /\ StrictlyDecreasing(t.stacks)
    /\ t.stacks[1] <= size
    /\ t.stacks[1] <= Len(At(pre.board, t.loc))
    /\ Last(At(pre.board, t.loc)).owner = t.player
    /\ \A j \in (1..Len(t.stacks)) \ {i} :
           ~ToppedBy(t, j, "Standing") /\ ~ToppedBy(t, j, "Capstone")

C14_CapstoneFlattens ==
    (Called /\ turn.kind = "Move") =>
        \A i \in 1..Len(turn.stacks) :
            (/\ ToppedBy(turn, i, "Standing")
             /\ CapstoneOnSource(turn)
             /\ turn.stacks[i] = 1) =>
                LET old == At(pre.board, PathSquare(turn, i))
                    new == At(board, PathSquare(turn, i))
                IN  /\ LegalApartFrom(turn, i) => ret = "true"
                    /\ ret = "true" =>
                           /\ Len(new) = Len(old) + 1
                           /\ SubSeq(new, 1, Len(old) - 1) = SubSeq(old, 1, Len(old) - 1)
                           /\ new[Len(old)] = Stone(Last(old).owner, "Flat")
                           /\ new[Len(old) + 1] = Last(At(pre.board, turn.loc))
                           /\ new[Len(old) + 1].typ = "Capstone"

\* a Capstone has been moved onto a Standing stone of the other player
C14_Witness ==
    /\ pc = "returned" /\ ret = "true" /\ turn.kind = "Move"
    /\ \E i \in 1..Len(turn.stacks) :
           /\ ToppedBy(turn, i, "Standing")
           /\ Last(At(pre.board, PathSquare(turn, i))).owner # turn.player
           /\ LegalApartFrom(turn, i)

(* ------------------------------------------------------------------------ *)
(* C15: frame of a Move. A successful Move leaves both reserves unchanged and *)
(* changes only its source square and the squares on its path; the stack of   *)
(* every other square is unchanged, and so is the number of stones on the     *)
(* board.                                                                     *)
(* ------------------------------------------------------------------------ *)
\* loc is the source of Move t or a square on its path
OnPath(t, loc) ==
    \/ loc = t.loc
    \/ \E i \in 1..Len(t.stacks) : loc = PathSquare(t, i)

\* how many stones lie on board b
StonesOn(b) == StonesOwned(b, "White") + StonesOwned(b, "Black")

C15_MoveFrame ==
    (Called /\ ret = "true" /\ turn.kind = "Move") =>
        /\ reserves = pre.reserves
        /\ \A r \in Coords, c \in Coords :
               ~OnPath(turn, Loc(r, c)) => At(board, Loc(r, c)) = At(pre.board, Loc(r, c))
        /\ StonesOn(board) = StonesOn(pre.board)

\* a Move over two path squares has been applied beside an occupied square
C15_Witness ==
    /\ pc = "returned" /\ ret = "true"
    /\ turn.kind = "Move" /\ Len(turn.stacks) = 2
    /\ board # pre.board
    /\ \E r \in Coords, c \in Coords :
           ~OnPath(turn, Loc(r, c)) /\ At(pre.board, Loc(r, c)) # <<>>

(* ------------------------------------------------------------------------ *)
(* C16: for each size in 3..8, GameState::new(size) yields a size-by-size     *)
(* board of empty stacks, White as the current player and, for both players,  *)
(* the reserve (ordinary, capstone) 3->(10,0), 4->(15,0), 5->(21,1),          *)
(* 6->(30,1), 7->(40,2), 8->(50,2); any other size is a fatal rejection that  *)
(* produces no game state.                                                    *)
(* ------------------------------------------------------------------------ *)
\* the allotment (ordinary, capstone) of the claim for a size in 3..8
Allotment(n) ==
    CASE n = 3 -> <<10, 0>> [] n = 4 -> <<15, 0>> [] n = 5 -> <<21, 1>>
      [] n = 6 -> <<30, 1>> [] n = 7 -> <<40, 2>> [] n = 8 -> <<50, 2>>

\* GameState::new has run and no turn has been applied since
FreshGame == pc # "start" /\ applied = 0

C16_InitialState ==
    FreshGame =>
        IF size \in 3..8
        THEN /\ pc # "panicked"
             /\ Len(board) = size
             /\ \A r \in 1..size :
                    Len(board[r]) = size /\ \A c \in 1..size : board[r][c] = <<>>
             /\ current_player = "White"
             /\ DOMAIN reserves = Player
             /\ \A p \in Player :
                    <<reserves[p].reg, reserves[p].cap>> = Allotment(size)
        ELSE /\ pc = "panicked"
             /\ board = <<>>
             /\ current_player = "none"
             /\ DOMAIN reserves = {}

\* the largest supported game has just been constructed
C16_Witness ==
    /\ pc = "idle" /\ applied = 0 /\ turn = "none"
    /\ size = 8
    /\ Len(board) = 8
    /\ reserves["Black"].cap = 2

(* ------------------------------------------------------------------------ *)
(* C17: a Move is accepted only if its `stacks` strictly decreases and every  *)
(* entry, the last one included, is above 0; so every square on the path of   *)
(* an accepted Move receives at least one stone.                              *)
(* ------------------------------------------------------------------------ *)
C17_NoZeroDrop ==
    (Called /\ ret = "true" /\ turn.kind = "Move") =>
        /\ StrictlyDecreasing(turn.stacks)
        /\ \A i \in 1..Len(turn.stacks) :
               Len(At(board, PathSquare(turn, i)))
                   >= Len(At(pre.board, PathSquare(turn, i))) + 1

(* ------------------------------------------------------------------------ *)
(* C18: flattening and ownership. When a successful Move reaches a path       *)
(* square that has a top stone, that stone is Flat before the carried stones  *)
(* are put on it. Across any applied turn no stone changes its owner, and no  *)
(* stone changes its type except such a previous top stone of a path square;  *)
(* a Place changes no existing stone.                                         *)
(* ------------------------------------------------------------------------ *)
\* the stones path squares 1..i hold above what they held before the call,
\* read along the path
RECURSIVE PutDown(_, _)
PutDown(t, i) ==
    IF i = 0 THEN <<>>
    ELSE PutDown(t, i - 1)
             \o SubSeq(At(board, PathSquare(t, i)),
                       Len(At(pre.board, PathSquare(t, i))) + 1,
                       Len(At(board, PathSquare(t, i))))

\* every square but those of Locs holds the stack it held before the call
SameExcept(Locs) ==
    \A r \in Coords, c \in Coords :
        Loc(r, c) \notin Locs => At(board, Loc(r, c)) = At(pre.board, Loc(r, c))

C18_FlatteningAndOwnership ==
    (Called /\ ret = "true") =>
        IF turn.kind = "Place"
        THEN /\ At(board, turn.loc)
                    = At(pre.board, turn.loc) \o <<Stone(turn.player, turn.typ)>>
             /\ SameExcept({turn.loc})
        ELSE LET src == At(pre.board, turn.loc)
                 n == Len(turn.stacks)
             IN  \* the stones left on the source are as they were
                 /\ At(board, turn.loc) = SubSeq(src, 1, Len(src) - turn.stacks[1])
                 \* the stones a path square held keep place and owner, and
                 \* their type, but the former top stone, which is Flat
                 /\ \A i \in 1..n :
                        LET old == At(pre.board, PathSquare(turn, i))
                            new == At(board, PathSquare(turn, i))
                        IN  /\ Len(new) >= Len(old)
                            /\ \A j \in 1..Len(old) :
                                   /\ new[j].owner = old[j].owner
                                   /\ new[j].typ = (IF j = Len(old) THEN "Flat"
                                                    ELSE old[j].typ)
                 \* the carried stones are put down with owner and type as
                 \* they were
                 /\ PutDown(turn, n) = Carried(turn)
                 /\ SameExcept({turn.loc} \cup {PathSquare(turn, i) : i \in 1..n})

\* a stone has been put on a Standing stone of the other player, which is
\* Flat now
C18_Witness ==
    /\ pc = "returned" /\ ret = "true" /\ turn.kind = "Move"
    /\ \E i \in 1..Len(turn.stacks) :
           LET old == At(pre.board, PathSquare(turn, i))
               new == At(board, PathSquare(turn, i))
           IN  /\ old # <<>> /\ Len(new) > Len(old)
               /\ Last(old).typ = "Standing"
               /\ Last(old).owner # new[Len(old) + 1].owner
               /\ new[Len(old)].typ = "Flat"

(* ------------------------------------------------------------------------ *)
(* C19: in every reachable state every stone that is not the top stone of its *)
(* stack is Flat: Standing stones and Capstones occur only on top, also among *)
(* the stones a Move leaves on its source and on its path squares.            *)
(* ------------------------------------------------------------------------ *)
C19_OnlyFlatsBelowTop ==
    \A r \in 1..size : \A c \in 1..size :
        \A i \in 1..(Len(board[r][c]) - 1) : board[r][c][i].typ = "Flat"

\* a Standing stone has been moved onto an occupied square
C19_Witness ==
    /\ pc = "returned" /\ ret = "true" /\ turn.kind = "Move"
    /\ \E i \in 1..Len(turn.stacks) :
           /\ At(pre.board, PathSquare(turn, i)) # <<>>
           /\ Last(At(board, PathSquare(turn, i))).typ = "Standing"

(* ------------------------------------------------------------------------ *)
(* C20: no Capstone is ever demoted. In every reachable state, for each       *)
(* player, the Capstones owned on the board plus the capstone reserve equal   *)
(* the initial capstone allotment, and the Flat and Standing stones owned on  *)
(* the board plus the ordinary reserve equal the initial ordinary allotment.  *)
(* The game state is read between calls, where every board and reserve that   *)
(* a sequence of turns leads to is seen.                                      *)
(* ------------------------------------------------------------------------ *)
\* how many Capstones of a stack belong to player p
CapstonesIn(stack, p) ==
    IF stack = <<>> THEN 0
    ELSE Len(SelectSeq(stack, LAMBDA st : st.owner = p /\ st.typ = "Capstone"))

\* how many Capstones of the first n squares of a row belong to player p
RECURSIVE CapstonesInRow(_, _, _)
CapstonesInRow(row, n, p) ==
    IF n = 0 THEN 0 ELSE CapstonesIn(row[n], p) + CapstonesInRow(row, n - 1, p)

\* how many Capstones of the first n rows of board b belong to player p
RECURSIVE CapstonesInRows(_, _, _)
CapstonesInRows(b, n, p) ==
    IF n = 0 THEN 0
    ELSE (IF \A c \in 1..size : b[n][c] = <<>> THEN 0
          ELSE CapstonesInRow(b[n], size, p))
             + CapstonesInRows(b, n - 1, p)

CapstonesOwned(b, p) == CapstonesInRows(b, size, p)

C20_PoolsConserved ==
    pc = "idle" =>
        \A p \in Player :
            LET capstones == CapstonesOwned(board, p)
            IN  /\ capstones + reserves[p].cap = ReserveFor(size).cap
                /\ (StonesOwned(board, p) - capstones) + reserves[p].reg
                       = ReserveFor(size).reg

\* a Capstone taken from the reserve lies on top of a stone of the other
\* player, onto which a Move has carried it
C20_Witness ==
    /\ pc = "idle"
    /\ \E r \in 1..size, c \in 1..size :
           /\ Len(board[r][c]) >= 2
           /\ Last(board[r][c]).typ = "Capstone"
           /\ board[r][c][1].owner # Last(board[r][c]).owner
           /\ reserves[Last(board[r][c]).owner].cap < ReserveFor(size).cap

(* ------------------------------------------------------------------------ *)
(* C21: validate-then-apply is safe. Whenever GameState::valid_turn accepts   *)
(* a turn, the rest of apply_turn completes without aborting: the target of a *)
(* Place, and the source and every path square of a Move, are on the board;   *)
(* the pick-up is no larger than the source stack, and every later entry of   *)
(* stacks no larger than the pile in hand when it is subtracted; the reserve  *)
(* counter a Place decrements is at least 1.                                  *)
(* ------------------------------------------------------------------------ *)
\* valid_turn has accepted the turn of the call
Accepted == Called /\ ret \in {"true", "apply_panic"}

\* the stones in hand on leaving path square i - 1 (the source for i = 1)
InHand(t, i) == IF i = 1 THEN Len(At(pre.board, t.loc)) ELSE t.stacks[i - 1]

C21_ApplyNeverAborts ==
    Accepted =>
        /\ ret = "true" /\ pc = "returned"
        /\ OnBoard(turn.loc)
        /\ turn.kind = "Place" => pre.reserves[turn.player][PoolOf(turn.typ)] >= 1
        /\ turn.kind = "Move" =>
               /\ Len(turn.stacks) >= 1
               /\ \A i \in 1..Len(turn.stacks) :
                      /\ OnBoard(PathSquare(turn, i))
                      /\ turn.stacks[i] <= InHand(turn, i)

\* an accepted Move has lifted a whole stack of two stones and dropped them
\* on two path squares
C21_Witness ==
    /\ pc = "returned" /\ ret = "true" /\ turn.kind = "Move"
    /\ turn.stacks = <<2, 1>>
    /\ Len(At(pre.board, turn.loc)) = 2
    /\ At(board, turn.loc) = <<>>
    /\ Len(At(board, PathSquare(turn, 2))) >= 1

====
